---- MODULE Spec2Model ----
(***************************************************************************)
(* Client script of the "BK Integration Settings" form                     *)
(* (bk_integration_settings.js) and its older variant (unnamed/part_000).  *)
(*                                                                         *)
(* Strings are TLC strings.  A field of the record that may be unset       *)
(* (undefined/null in JavaScript) is a sequence of length 0 (unset) or 1   *)
(* (the string it holds), so that `x || ""` is a real conversion.          *)
(* Every handler is one action.  The calls a handler makes to the host     *)
(* (set_value, show_alert, set_intro, add_custom_button, call, reload_doc) *)
(* are recorded, in order, in `calls`, and applied to the host's state.    *)
(*                                                                         *)
(* What the host does is taken from its API as the script uses it: a field *)
(* handler runs when the user has changed the field; a remote call made    *)
(* with freeze: true blocks the user's edits and buttons until its         *)
(* response has arrived; refresh may be dispatched at any time; buttons    *)
(* once added stay; reload_doc replaces frm.doc by the server's record and *)
(* resolves later, after the UI has been released.                         *)
(***************************************************************************)
EXTENDS Integers, Sequences, FiniteSets, TLC

VARIABLES
  variant,         \* which script is loaded: "full" or "basic"
  origin,          \* window.location.origin
  doc,             \* frm.doc, the record as the form holds it
  server,          \* the record as the server stores it
  intro,           \* the form's intro banner: <<>> or <<[html, color]>>
  custom_buttons,  \* labels of the custom buttons on the form
  freeze_count,    \* how many frozen remote calls hold the UI
  sent,            \* remote calls the server has not yet executed
  responses,       \* remote calls executed whose callback has not run
  reloads,         \* reload_doc() promises not yet resolved
  event,           \* the handler that ran last
  calls            \* the host calls that handler made, in order

vars == <<variant, origin, doc, server, intro, custom_buttons, freeze_count,
          sent, responses, reloads, event, calls>>

----------------------------------------------------------------------------
(* Bounds *)

\* longest run of trailing "/" a user types after a base URL
MaxSlashes == 2

\* most remote calls and reloads pending at once
MaxPending == 2

----------------------------------------------------------------------------
(* JavaScript values and string helpers *)

UNSET == <<>>

Str(s) == <<s>>

\* f || d, for a field f that is unset or holds a string
JsOr(f, d) == IF f = UNSET THEN d ELSE IF f[1] = "" THEN d ELSE f[1]

\* !f for a string field and for a number
Falsy(f) == f = UNSET \/ f = Str("")

CharAt(s, i) == SubSeq(s, i, i)

RECURSIVE Slashes(_)
Slashes(k) == IF k = 0 THEN "" ELSE "/" \o Slashes(k - 1)

\* s.replace(/\/+$/, "")
RECURSIVE StripTrailingSlashes(_)
StripTrailingSlashes(s) ==
  IF Len(s) > 0 /\ CharAt(s, Len(s)) = "/"
  THEN StripTrailingSlashes(SubSeq(s, 1, Len(s) - 1))
  ELSE s

LowerLetters == "abcdefghijklmnopqrstuvwxyz"

UpperLetters == "ABCDEFGHIJKLMNOPQRSTUVWXYZ"

UpperChar(c) ==
  IF \E i \in 1..26 : CharAt(LowerLetters, i) = c
  THEN CharAt(UpperLetters, CHOOSE i \in 1..26 : CharAt(LowerLetters, i) = c)
  ELSE c

\* the status compared as it is stored
toUpperCase_identity(s) == s

\* s.toUpperCase()
RECURSIVE toUpperCase(_)
toUpperCase(s) ==
  IF s = "" THEN "" ELSE UpperChar(CharAt(s, 1)) \o toUpperCase(SubSeq(s, 2, Len(s)))

EscapeChar(c) ==
  CASE c = "&" -> "&amp;"
    [] c = "<" -> "&lt;"
    [] c = ">" -> "&gt;"
    [] c = "\"" -> "&quot;"
    [] c = "'" -> "&#39;"
    [] c = "=" -> "&#x3D;"
    [] OTHER -> c

\* frappe.utils.escape_html(txt): replaces & < > " ' = (and the backquote,
\* which a TLA+ string cannot hold and no input here contains)
RECURSIVE escape_html(_)
escape_html(s) ==
  IF s = "" THEN "" ELSE EscapeChar(CharAt(s, 1)) \o escape_html(SubSeq(s, 2, Len(s)))

----------------------------------------------------------------------------
(* Inputs *)

Variants == {"full", "basic"}

Origins == {"https://app.local"}

\* what a user can type into erp_base_url
BaseUrls ==
  {UNSET} \cup
  {Str(b \o Slashes(k)) : b \in {"", "https://x.com"},
                          k \in 0..MaxSlashes}

\* what the server can store in the three last_test_* fields
TestOutcomes ==
  { [status |-> UNSET,           message |-> UNSET,                     on |-> UNSET],
    [status |-> Str(""),         message |-> Str(""),                   on |-> Str("")],
    [status |-> Str("SUCCESS"),  message |-> Str("Token OK"),           on |-> Str("2024-05-01 10:00:00")],
    [status |-> Str("success"),  message |-> Str("<script>x</script>"), on |-> Str("<i>now</i>")],
    [status |-> Str("Success"),  message |-> UNSET,                     on |-> Str("2024-05-01 10:00:00")],
    [status |-> Str("FAILED"),   message |-> Str("a&b='c' \"d\""),      on |-> UNSET],
    [status |-> Str("ERROR"),    message |-> Str("<script>x</script>"), on |-> Str("2024-05-01 10:00:00")] }

UrlFields ==
  <<"auth_url", "validation_url", "payment_notification_url",
    "payment_callback_url", "payment_reversal_url">>

----------------------------------------------------------------------------
(* The host's API, as the calls a handler makes *)

SetValue(field, value) == [fn |-> "set_value", a |-> field, b |-> value]

ShowAlert(message, indicator) == [fn |-> "show_alert", a |-> message, b |-> indicator]

SetIntro(html, color) == [fn |-> "set_intro", a |-> html, b |-> color]

AddCustomButton(label) == [fn |-> "add_custom_button", a |-> label, b |-> ""]

Call(method, freeze) == [fn |-> "call", a |-> method, b |-> IF freeze THEN "freeze" ELSE ""]

ReloadDoc == [fn |-> "reload_doc", a |-> "", b |-> ""]

\* frm.doc after the host has carried out the calls cs
RECURSIVE DocAfter(_, _)
DocAfter(d, cs) ==
  IF cs = <<>> THEN d
  ELSE DocAfter(IF Head(cs).fn = "set_value"
                THEN [d EXCEPT ![Head(cs).a] = Str(Head(cs).b)]
                ELSE d,
                Tail(cs))

\* the intro banner after the host has carried out the calls cs
RECURSIVE IntroAfter(_, _)
IntroAfter(i, cs) ==
  IF cs = <<>> THEN i
  ELSE IntroAfter(IF Head(cs).fn = "set_intro"
                  THEN <<[html |-> Head(cs).a, color |-> Head(cs).b]>>
                  ELSE i,
                  Tail(cs))

\* the custom buttons after the host has carried out the calls cs
ButtonsAfter(b, cs) ==
  b \cup {cs[i].a : i \in {j \in DOMAIN cs : cs[j].fn = "add_custom_button"}}

----------------------------------------------------------------------------
(* The pure parts of the handlers *)

\* the five frm.set_value calls of generate_urls
UrlCalls(base) ==
  << SetValue("auth_url", base \o "/api/method/bk_integration.api.authenticate"),
     SetValue("validation_url", base \o "/api/method/bk_integration.api.validate_customer"),
     SetValue("payment_notification_url",
              base \o "/api/method/bk_integration.api.payment_notification"),
     SetValue("payment_callback_url",
              base \o "/api/method/bk_integration.api.payment_callback"),
     SetValue("payment_reversal_url",
              base \o "/api/method/bk_integration.api.payment_reversal") >>

\* Base with .replace(/\/$/, ""): one trailing slash removed
Base_oneSlash(d, org) ==
  LET b == JsOr(d.erp_base_url, JsOr(Str(org), ""))
  IN  IF Len(b) > 0 /\ CharAt(b, Len(b)) = "/" THEN SubSeq(b, 1, Len(b) - 1) ELSE b

\* Base falling back on the derived auth_url before the origin
Base_fromAuthUrl(d, org) ==
  StripTrailingSlashes(JsOr(d.erp_base_url, JsOr(d.auth_url, JsOr(Str(org), ""))))

\* (frm.doc.erp_base_url || window.location.origin || "").replace(/\/+$/, "")
Base(d, org) == StripTrailingSlashes(JsOr(d.erp_base_url, JsOr(Str(org), "")))

\* generate_urls without its early return
generate_urls_noGuard(d, org) == UrlCalls(Base(d, org))

\* generate_urls of bk_integration_settings.js
generate_urls(d, org) ==
  IF d.enable_integration = 0 THEN <<>> ELSE UrlCalls(Base(d, org))

\* cint(v) of a number
cint(v) == v

\* generate_urls of the older variant
generate_urls_basic(d, org) ==
  LET enabled == cint(IF d.enable_integration = 0 THEN 0 ELSE d.enable_integration)
  IN  IF enabled = 0 THEN <<>> ELSE UrlCalls(Base(d, org))

SuccessLabel == "<span style=\"color:#178a2f;font-weight:600;\">SUCCESS</span>"

FailedLabel == "<span style=\"color:#c0392b;font-weight:600;\">FAILED</span>"

\* render_test_status alerting FAILED for every status but SUCCESS
render_test_status_alertElse(d) ==
  LET s   == toUpperCase(JsOr(d.last_test_status, ""))
      msg == JsOr(d.last_test_message, "")
      on  == JsOr(d.last_test_on, "")
      alert == IF s = "SUCCESS"
               THEN <<ShowAlert("BK Connection: SUCCESS", "green")>>
               ELSE <<ShowAlert("BK Connection: FAILED", "red")>>
      label == IF s = "SUCCESS" THEN SuccessLabel ELSE FailedLabel
  IN  IF s = "" THEN <<>>
      ELSE alert \o
           << SetIntro("<div>BK Connection Test: " \o label \o "<br>"
                         \o escape_html(msg) \o "<br><small>Last tested: "
                         \o escape_html(on) \o "</small></div>",
                       IF s = "SUCCESS" THEN "green" ELSE "red") >>

\* render_test_status inserting the message unescaped
render_test_status_rawMessage(d) ==
  LET s   == toUpperCase(JsOr(d.last_test_status, ""))
      msg == JsOr(d.last_test_message, "")
      on  == JsOr(d.last_test_on, "")
      alert == IF s = "SUCCESS"
               THEN <<ShowAlert("BK Connection: SUCCESS", "green")>>
               ELSE IF s = "FAILED"
                    THEN <<ShowAlert("BK Connection: FAILED", "red")>>
                    ELSE <<>>
      label == IF s = "SUCCESS" THEN SuccessLabel ELSE FailedLabel
  IN  IF s = "" THEN <<>>
      ELSE alert \o
           << SetIntro("<div>BK Connection Test: " \o label \o "<br>"
                         \o msg \o "<br><small>Last tested: "
                         \o escape_html(on) \o "</small></div>",
                       IF s = "SUCCESS" THEN "green" ELSE "red") >>

\* render_test_status without the early return on an empty status
render_test_status_noReturn(d) ==
  LET s   == toUpperCase(JsOr(d.last_test_status, ""))
      msg == JsOr(d.last_test_message, "")
      on  == JsOr(d.last_test_on, "")
      alert == IF s = "SUCCESS"
               THEN <<ShowAlert("BK Connection: SUCCESS", "green")>>
               ELSE IF s = "FAILED"
                    THEN <<ShowAlert("BK Connection: FAILED", "red")>>
                    ELSE <<>>
      label == IF s = "SUCCESS" THEN SuccessLabel ELSE FailedLabel
  IN  alert \o
      << SetIntro("<div>BK Connection Test: " \o label \o "<br>"
                    \o escape_html(msg) \o "<br><small>Last tested: "
                    \o escape_html(on) \o "</small></div>",
                  IF s = "SUCCESS" THEN "green" ELSE "red") >>

\* render_test_status
render_test_status(d) ==
  LET s   == toUpperCase(JsOr(d.last_test_status, ""))
      msg == JsOr(d.last_test_message, "")
      on  == JsOr(d.last_test_on, "")
      alert == IF s = "SUCCESS"
               THEN <<ShowAlert("BK Connection: SUCCESS", "green")>>
               ELSE IF s = "FAILED"
                    THEN <<ShowAlert("BK Connection: FAILED", "red")>>
                    ELSE <<>>
      label == IF s = "SUCCESS" THEN SuccessLabel ELSE FailedLabel
  IN  IF s = "" THEN <<>>
      ELSE alert \o
           << SetIntro("<div>BK Connection Test: " \o label \o "<br>"
                         \o escape_html(msg) \o "<br><small>Last tested: "
                         \o escape_html(on) \o "</small></div>",
                       IF s = "SUCCESS" THEN "green" ELSE "red") >>

----------------------------------------------------------------------------
(* State after the form has loaded the record, before its first refresh *)

\* a stored record whose URL fields were never written
NewDoc(enable, base, t) ==
  [ enable_integration       |-> enable,
    erp_base_url             |-> base,
    auth_url                 |-> UNSET,
    validation_url           |-> UNSET,
    payment_notification_url |-> UNSET,
    payment_callback_url     |-> UNSET,
    payment_reversal_url     |-> UNSET,
    last_test_status         |-> t.status,
    last_test_message        |-> t.message,
    last_test_on             |-> t.on ]

Init ==
  /\ variant \in Variants
  /\ origin \in Origins
  /\ server \in {NewDoc(e, UNSET, t) : e \in {0, 1}, t \in TestOutcomes}
  /\ doc = server
  /\ intro = <<>>
  /\ custom_buttons = {}
  /\ freeze_count = 0
  /\ sent = 0
  /\ responses = 0
  /\ reloads = 0
  /\ event = "load"
  /\ calls = <<>>

\* the host carries out the calls cs that handler ev made on the record d
Dispatch(ev, d, cs) ==
  /\ event' = ev
  /\ calls' = cs
  /\ doc' = DocAfter(d, cs)
  /\ intro' = IntroAfter(intro, cs)
  /\ custom_buttons' = ButtonsAfter(custom_buttons, cs)

----------------------------------------------------------------------------
(* Handlers of bk_integration_settings.js *)

\* refresh registering the button whatever enable_integration is
refresh_alwaysButton ==
  /\ variant = "full"
  /\ LET c1 == generate_urls(doc, origin)
         d1 == DocAfter(doc, c1)
         c2 == render_test_status(d1)
         c3 == <<AddCustomButton("Test Connection")>>
     IN  Dispatch("refresh", doc, c1 \o c2 \o c3)
  /\ UNCHANGED <<variant, origin, server, freeze_count, sent, responses, reloads>>

refresh ==
  /\ variant = "full"
  /\ LET c1 == generate_urls(doc, origin)
         d1 == DocAfter(doc, c1)
         c2 == render_test_status(d1)
         c3 == IF d1.enable_integration # 0
               THEN <<AddCustomButton("Test Connection")>>
               ELSE <<>>
     IN  Dispatch("refresh", doc, c1 \o c2 \o c3)
  /\ UNCHANGED <<variant, origin, server, freeze_count, sent, responses, reloads>>

\* the user edits erp_base_url; the field's handler runs
erp_base_url ==
  /\ variant = "full"
  /\ freeze_count = 0
  /\ \E u \in BaseUrls :
       /\ u # doc.erp_base_url
       /\ LET d0 == [doc EXCEPT !.erp_base_url = u]
          IN  Dispatch("erp_base_url", d0, generate_urls(d0, origin))
  /\ UNCHANGED <<variant, origin, server, freeze_count, sent, responses, reloads>>

\* the user toggles enable_integration; the field's handler runs
enable_integration ==
  /\ variant = "full"
  /\ freeze_count = 0
  /\ LET d0 == [doc EXCEPT !.enable_integration = 1 - @]
         c1 == generate_urls(d0, origin)
         c2 == render_test_status(DocAfter(d0, c1))
     IN  Dispatch("enable_integration", d0, c1 \o c2)
  /\ UNCHANGED <<variant, origin, server, freeze_count, sent, responses, reloads>>

\* test_connection without freeze: true
test_connection_noFreeze ==
  /\ variant = "full"
  /\ freeze_count = 0
  /\ "Test Connection" \in custom_buttons
  /\ sent + responses + reloads < MaxPending
  /\ LET cs == <<Call("bk_integration.api.test_bk_connection", FALSE)>>
     IN  /\ Dispatch("test_connection", doc, cs)
         /\ sent' = sent + 1
         /\ freeze_count' = freeze_count + (IF cs[1].b = "freeze" THEN 1 ELSE 0)
  /\ UNCHANGED <<variant, origin, server, responses, reloads>>

\* the user presses "Test Connection"
test_connection ==
  /\ variant = "full"
  /\ freeze_count = 0
  /\ "Test Connection" \in custom_buttons
  /\ sent + responses + reloads < MaxPending
  /\ LET cs == <<Call("bk_integration.api.test_bk_connection", TRUE)>>
     IN  /\ Dispatch("test_connection", doc, cs)
         /\ sent' = sent + 1
         /\ freeze_count' = freeze_count + (IF cs[1].b = "freeze" THEN 1 ELSE 0)
  /\ UNCHANGED <<variant, origin, server, responses, reloads>>

\* the server runs bk_integration.api.test_bk_connection
test_bk_connection ==
  /\ sent > 0
  /\ sent' = sent - 1
  /\ responses' = responses + 1
  /\ \/ UNCHANGED server
     \/ \E t \in TestOutcomes :
          server' = [server EXCEPT !.last_test_status = t.status,
                                   !.last_test_message = t.message,
                                   !.last_test_on = t.on]
  /\ event' = "test_bk_connection"
  /\ calls' = <<>>
  /\ UNCHANGED <<variant, origin, doc, intro, custom_buttons, freeze_count, reloads>>

\* callback of frappe.call: starts the reload
callback ==
  /\ responses > 0
  /\ responses' = responses - 1
  /\ freeze_count' = IF freeze_count > 0 THEN freeze_count - 1 ELSE 0
  /\ reloads' = reloads + 1
  /\ Dispatch("callback", doc, <<ReloadDoc>>)
  /\ UNCHANGED <<variant, origin, server, sent>>

\* the status rendered without waiting for the reload
reload_doc_then_stale ==
  /\ reloads > 0
  /\ reloads' = reloads - 1
  /\ Dispatch("reload_doc_then", server, render_test_status(doc))
  /\ UNCHANGED <<variant, origin, server, freeze_count, sent, responses>>

\* frm.reload_doc() resolves: the record is the server's, then the status is rendered
reload_doc_then ==
  /\ reloads > 0
  /\ reloads' = reloads - 1
  /\ Dispatch("reload_doc_then", server, render_test_status(server))
  /\ UNCHANGED <<variant, origin, server, freeze_count, sent, responses>>

----------------------------------------------------------------------------
(* Handlers of the older variant *)

refresh_basic ==
  /\ variant = "basic"
  /\ Dispatch("refresh", doc, generate_urls_basic(doc, origin))
  /\ UNCHANGED <<variant, origin, server, freeze_count, sent, responses, reloads>>

erp_base_url_basic ==
  /\ variant = "basic"
  /\ freeze_count = 0
  /\ \E u \in BaseUrls :
       /\ u # doc.erp_base_url
       /\ LET d0 == [doc EXCEPT !.erp_base_url = u]
          IN  Dispatch("erp_base_url", d0, generate_urls_basic(d0, origin))
  /\ UNCHANGED <<variant, origin, server, freeze_count, sent, responses, reloads>>

enable_integration_basic ==
  /\ variant = "basic"
  /\ freeze_count = 0
  /\ LET d0 == [doc EXCEPT !.enable_integration = 1 - @]
     IN  Dispatch("enable_integration", d0, generate_urls_basic(d0, origin))
  /\ UNCHANGED <<variant, origin, server, freeze_count, sent, responses, reloads>>

----------------------------------------------------------------------------

Next ==
  \/ refresh
  \/ erp_base_url
  \/ enable_integration
  \/ test_connection
  \/ test_bk_connection
  \/ callback
  \/ reload_doc_then
  \/ refresh_basic
  \/ erp_base_url_basic
  \/ enable_integration_basic

Spec == Init /\ [][Next]_vars

TypeOK ==
  /\ variant \in Variants
  /\ doc.enable_integration \in {0, 1}
  /\ Len(intro) <= 1
  /\ freeze_count \in 0..MaxPending
  /\ sent + responses + reloads <= MaxPending

----------------------------------------------------------------------------
(* Vocabulary of the properties *)

UrlEvents == {"refresh", "erp_base_url", "enable_integration"}

RenderEvents == {"refresh", "enable_integration", "reload_doc_then"}

UrlFieldSet == {UrlFields[i] : i \in DOMAIN UrlFields}

Suffix ==
  [ auth_url                 |-> "authenticate",
    validation_url           |-> "validate_customer",
    payment_notification_url |-> "payment_notification",
    payment_callback_url     |-> "payment_callback",
    payment_reversal_url     |-> "payment_reversal" ]

\* t is s without its trailing "/" characters
IsStripOf(t, s) ==
  \E k \in 0..Len(s) :
    /\ t = SubSeq(s, 1, k)
    /\ k = 0 \/ CharAt(s, k) # "/"
    /\ \A i \in (k + 1)..Len(s) : CharAt(s, i) = "/"

\* erpBaseUrl if non-empty, otherwise the origin, without trailing slashes
ExpectedBase ==
  LET B == IF doc.erp_base_url # UNSET /\ doc.erp_base_url # Str("")
           THEN doc.erp_base_url[1]
           ELSE origin
  IN  CHOOSE t \in {SubSeq(B, 1, k) : k \in 0..Len(B)} : IsStripOf(t, B)

\* s is word in some mix of letter cases
CaseVariantOf(s, lower, upper) ==
  /\ Len(s) = Len(lower)
  /\ \A i \in 1..Len(s) : CharAt(s, i) = CharAt(lower, i) \/ CharAt(s, i) = CharAt(upper, i)

StatusText == IF doc.last_test_status = UNSET THEN "" ELSE doc.last_test_status[1]

IsSuccess == CaseVariantOf(StatusText, "success", "SUCCESS")

IsFailed == CaseVariantOf(StatusText, "failed", "FAILED")

IsRenderCall(c) == c.fn \in {"show_alert", "set_intro"}

Alerts(cs) == {cs[i] : i \in {j \in DOMAIN cs : cs[j].fn = "show_alert"}}

Intros(cs) == {cs[i] : i \in {j \in DOMAIN cs : cs[j].fn = "set_intro"}}

StartsWith(s, p) == Len(s) >= Len(p) /\ SubSeq(s, 1, Len(p)) = p

\* how many times the character c occurs in s
CountChar(s, c) == Cardinality({i \in 1..Len(s) : CharAt(s, i) = c})

BannerHead == "<div>BK Connection Test: "

----------------------------------------------------------------------------
(* Properties *)

\* C1: after a refresh, a base-URL change or a toggle that leaves
\* enable_integration true, each of the five derived fields equals
\* B + "/api/method/bk_integration.api." + its suffix, where B is erp_base_url
\* if non-empty, otherwise the origin, without its trailing "/" characters.
C1_DerivedUrls ==
  (event \in UrlEvents /\ doc.enable_integration = 1) =>
    \A f \in UrlFieldSet :
      doc[f] = Str(ExpectedBase \o "/api/method/bk_integration.api." \o Suffix[f])

\* a base with two trailing slashes has been derived into the slash-free URL
C1_Witness ==
  /\ event = "erp_base_url"
  /\ doc.enable_integration = 1
  /\ doc.erp_base_url = Str("https://x.com//")
  /\ doc.payment_reversal_url =
       Str("https://x.com/api/method/bk_integration.api.payment_reversal")

\* C2: a refresh, base-URL change or toggle that finds enable_integration
\* false writes none of the five derived fields: each keeps its value.
C2_DisabledWritesNothing ==
  [][ (event' \in UrlEvents /\ doc'.enable_integration = 0) =>
        /\ \A f \in UrlFieldSet : doc'[f] = doc[f]
        /\ \A i \in DOMAIN calls' : calls'[i].fn # "set_value" ]_vars

\* disabled, the base has changed and the URL derived from the origin is still there
C2_Witness ==
  /\ event = "erp_base_url"
  /\ doc.enable_integration = 0
  /\ doc.erp_base_url = Str("https://x.com")
  /\ doc.auth_url = Str("https://app.local/api/method/bk_integration.api.authenticate")

\* C10: running generate_urls again on the record a handler has left, with
\* the same origin, changes none of its fields, in both variants.
C10_Idempotent ==
  event \in UrlEvents =>
    DocAfter(doc, IF variant = "full"
                  THEN generate_urls(doc, origin)
                  ELSE generate_urls_basic(doc, origin)) = doc

\* the older variant has derived the URLs from the origin
C10_Witness ==
  /\ variant = "basic"
  /\ event \in UrlEvents
  /\ doc.enable_integration = 1
  /\ Falsy(doc.erp_base_url)
  /\ doc.auth_url = Str("https://app.local/api/method/bk_integration.api.authenticate")

\* C3: when render_test_status runs on a status that is "success" in any mix
\* of letter cases, it fires the alert "BK Connection: SUCCESS" (green) and sets
\* the intro to the green SUCCESS label with colour green, with the very calls
\* it makes for "SUCCESS".
C3_SuccessAnyCase ==
  (variant = "full" /\ event \in RenderEvents /\ IsSuccess) =>
    /\ Alerts(calls) = {ShowAlert("BK Connection: SUCCESS", "green")}
    /\ \E c \in Intros(calls) :
         /\ StartsWith(c.a, BannerHead \o SuccessLabel \o "<br>")
         /\ c.b = "green"
         /\ intro = <<[html |-> c.a, color |-> "green"]>>
    /\ SelectSeq(calls, IsRenderCall) =
         render_test_status([doc EXCEPT !.last_test_status = Str("SUCCESS")])

\* a reload brought the lowercase status and the green banner is up
C3_Witness ==
  /\ event = "reload_doc_then"
  /\ doc.last_test_status = Str("success")
  /\ intro # <<>>
  /\ intro[1].color = "green"
  /\ ShowAlert("BK Connection: SUCCESS", "green") \in Alerts(calls)

\* C4: for a non-empty status that is neither SUCCESS nor FAILED in any letter
\* case, render_test_status sets the intro to the red FAILED label with colour
\* red and fires no alert; an alert fires only for SUCCESS (green) or FAILED (red).
C4_OtherStatus ==
  (variant = "full" /\ event \in RenderEvents) =>
    /\ (StatusText # "" /\ ~IsSuccess /\ ~IsFailed) =>
         /\ Alerts(calls) = {}
         /\ \E c \in Intros(calls) :
              /\ StartsWith(c.a, BannerHead \o FailedLabel \o "<br>")
              /\ c.b = "red"
              /\ intro = <<[html |-> c.a, color |-> "red"]>>
    /\ \A c \in Alerts(calls) :
         \/ IsSuccess /\ c = ShowAlert("BK Connection: SUCCESS", "green")
         \/ IsFailed /\ c = ShowAlert("BK Connection: FAILED", "red")

\* the status ERROR is up as a red banner, without an alert
C4_Witness ==
  /\ event \in RenderEvents
  /\ doc.last_test_status = Str("ERROR")
  /\ Alerts(calls) = {}
  /\ intro # <<>>
  /\ intro[1].color = "red"
  /\ StartsWith(intro[1].html, BannerHead \o FailedLabel)

\* C5: the banner holds last_test_message and last_test_on only as
\* escape_html made them: a banner a handler sets is the fixed markup around
\* the two escaped texts, and no banner has a tag or a quote beyond the eight
\* tags and two quotes of the fixed markup.
C5_Escaped ==
  /\ \A c \in Intros(calls) :
       \E label \in {SuccessLabel, FailedLabel} :
         c.a = BannerHead \o label \o "<br>"
                 \o escape_html(JsOr(doc.last_test_message, ""))
                 \o "<br><small>Last tested: "
                 \o escape_html(JsOr(doc.last_test_on, ""))
                 \o "</small></div>"
  /\ intro # <<>> =>
       /\ CountChar(intro[1].html, "<") = 8
       /\ CountChar(intro[1].html, ">") = 8
       /\ CountChar(intro[1].html, "\"") = 2
       /\ CountChar(intro[1].html, "'") = 0

\* a message and a timestamp that are markup have been rendered
C5_Witness ==
  /\ event = "reload_doc_then"
  /\ doc.last_test_message = Str("<script>x</script>")
  /\ doc.last_test_on = Str("<i>now</i>")
  /\ Intros(calls) # {}
  /\ intro # <<>>

\* C8: when the status is empty or unset, render_test_status fires no alert
\* and sets no intro: the banner stays what it was, on refresh, on toggle and
\* after a reload.
C8_EmptyStatusNoRender ==
  [][ (variant = "full" /\ event' \in RenderEvents /\ Falsy(doc'.last_test_status)) =>
        /\ intro' = intro
        /\ Alerts(calls') = {}
        /\ Intros(calls') = {} ]_vars

\* a reload brought an unset status and the earlier banner is still up
C8_Witness ==
  /\ event = "reload_doc_then"
  /\ doc.last_test_status = UNSET
  /\ intro # <<>>

\* C6: the callback of the remote call only starts the reload and renders
\* nothing; the status is rendered when the reload has completed, from the
\* record as reloaded: the calls made then are those render_test_status makes
\* for the server's record, which is the record the form now holds.
C6_RenderAfterReload ==
  /\ [][ event' = "callback" =>
           /\ calls' = <<ReloadDoc>>
           /\ intro' = intro
           /\ doc' = doc ]_vars
  /\ [](event = "reload_doc_then" =>
          /\ doc = server
          /\ calls = render_test_status(server)
          /\ StatusText # "" =>
               /\ Intros(calls) # {}
               /\ \A c \in Intros(calls) : intro = <<[html |-> c.a, color |-> c.b]>>)

\* the test changed the status from what the form held, and the banner follows it
C6_Witness ==
  /\ event = "reload_doc_then"
  /\ doc.last_test_status = Str("FAILED")
  /\ intro # <<>>
  /\ intro[1].color = "red"
  /\ ShowAlert("BK Connection: FAILED", "red") \in Alerts(calls)

\* C7: "Test Connection" is registered by refresh exactly when
\* enable_integration is true at that refresh; the handlers of erp_base_url and
\* enable_integration neither register nor remove it; test_connection runs only
\* while the button is registered.
C7_ButtonOnlyOnRefresh ==
  [][ /\ (variant = "full" /\ event' = "refresh") =>
           ((AddCustomButton("Test Connection") \in {calls'[i] : i \in DOMAIN calls'})
              <=> doc'.enable_integration = 1)
      /\ custom_buttons' # custom_buttons =>
           (event' = "refresh" /\ doc'.enable_integration = 1)
      /\ event' \in {"erp_base_url", "enable_integration"} =>
           /\ custom_buttons' = custom_buttons
           /\ \A i \in DOMAIN calls' : calls'[i].fn # "add_custom_button"
      /\ event' = "test_connection" => "Test Connection" \in custom_buttons ]_vars

\* the integration was switched off after a refresh: the button is still there
C7_Witness ==
  /\ event = "enable_integration"
  /\ doc.enable_integration = 0
  /\ "Test Connection" \in custom_buttons

\* C9: at most one remote call is in flight; while one is in flight the UI is
\* frozen, and while the UI is frozen no handler of a field change and no
\* second test_connection runs.
C9_OneCallInFlight ==
  /\ [](/\ sent + responses <= 1
        /\ sent + responses > 0 => freeze_count > 0)
  /\ [][ freeze_count > 0 =>
           event' \notin {"erp_base_url", "enable_integration", "test_connection"} ]_vars

\* a second test is in flight while the reload of the first is still pending
C9_Witness ==
  /\ sent = 1
  /\ reloads = 1
  /\ freeze_count = 1
  /\ event = "test_connection"

====
